---------------------------- MODULE Spec2Model ----------------------------
(***************************************************************************)
(* STM32F407 UART bootloader: the command handlers of BL.c, their helpers  *)
(* (CRC verification, ACK/NACK, address validation, flash erase, memory    *)
(* write) and the peripherals they drive (UART, CRC unit, flash            *)
(* controller, LED), as one state machine.                                 *)
(*                                                                         *)
(* One packet is handled at a time.  `log' records, for the packet being   *)
(* handled, every call the handler makes to a peripheral, in order.        *)
(***************************************************************************)
EXTENDS Integers, Sequences, FiniteSets, TLC

VARIABLES
    pc,          \* position of the single thread of control
    packet,      \* the receive buffer handed to the handler (C index i is packet[i+1])
    crcDR,       \* data register of the CRC unit (hcrc.Instance->DR)
    hcrcState,   \* hcrc.State
    flashLocked, \* lock bit of the flash controller
    ld5,         \* LED LD5
    mem,         \* contents of the tracked RAM cells
    log,         \* peripheral calls made while handling the current packet
    crcOk,       \* Local_uint8CRCStatus = CRC_SUCCESS of the current packet
    lAddress,    \* Local_uint32Address / Copy_uint32Address
    lValid,      \* Local_uint8AddressValidStatus
    lLength,     \* Local_uint8PayloadLength / Copy_uint8Length
    lIter,       \* Local_uint8Iterator of the memory write loops
    lErase,      \* Local_MyErase
    lStatus      \* Local_ErrorStatus / Local_uint8EraseStatus / Local_uint8WritingStatus

vars == <<pc, packet, crcDR, hcrcState, flashLocked, ld5, mem, log, crcOk,
          lAddress, lValid, lLength, lIter, lErase, lStatus>>

---------------------------------------------------------------------------
(* Program constants *)

BL_ACK  == 165
BL_NACK == 127

BL_GET_VESRION        == 81
BL_GET_HELP           == 82
BL_GET_CID            == 83
BL_GET_RDP_STATUS     == 84
BL_GO_TO_ADDR         == 85
BL_FLASH_ERASE        == 86
BL_MEM_WRITE          == 87
BL_EN_RW_PROTECT      == 88
BL_MEM_READ           == 89
BL_READ_SECTOR_STATUS == 90
BL_OTP_READ           == 91
BL_DIS_WR_PROTECT     == 92

CRC_SUCCESS == 1
CRC_FAIL    == 0
BL_VERSION  == 1
VALID_ADDRESS     == 1
NOT_VALID_ADDRESS == 0
NUMBER_OF_SECTORS == 12
MASS_ERASE        == 255
WRITING_SUCCESS   == 1
WRITING_ERROR     == 0

\* HAL_StatusTypeDef values used by BL.c
HAL_OK    == 0
HAL_ERROR == 1

\* Memory map of the STM32F407 as used by uint8_ValidateAddress
FLASH_BASE == 134217728      \* 0x08000000
FLASH_END  == 135266303      \* 0x080FFFFF
SRAM1_BASE == 536870912      \* 0x20000000
SRAM_SIZE  == 131072         \* 128*1024

---------------------------------------------------------------------------
(* Bounds of the model *)

\* Width in bits of the modelled CRC data register.
CrcWidth == 3
\* Largest number of data bytes a modelled mem-write packet carries.
MaxPayload == 2

---------------------------------------------------------------------------
(* Bytes and words *)

Byte == 0..255

U8(x) == x % 256

\* the four bytes of a 32-bit value, least significant first
LE32Bytes(v) ==
    << v % 256, (v \div 256) % 256, (v \div 65536) % 256, (v \div 16777216) % 256 >>

\* *((uint32_t*)p) on the little-endian Cortex-M4
Word32(b0, b1, b2, b3) == b0 + 256 * b1 + 65536 * b2 + 16777216 * b3

RECURSIVE BitXor(_, _)
BitXor(a, b) ==
    IF a = 0 THEN b
    ELSE IF b = 0 THEN a
    ELSE (((a % 2) + (b % 2)) % 2) + 2 * BitXor(a \div 2, b \div 2)

RECURSIVE BitOr(_, _)
BitOr(a, b) ==
    IF a = 0 THEN b
    ELSE IF b = 0 THEN a
    ELSE (IF (a % 2) = 1 \/ (b % 2) = 1 THEN 1 ELSE 0) + 2 * BitOr(a \div 2, b \div 2)

RECURSIVE Pow2(_)
Pow2(n) == IF n = 0 THEN 1 ELSE 2 * Pow2(n - 1)

---------------------------------------------------------------------------
(* The CRC unit.  HAL_CRC_Accumulate feeds 32-bit words into the data      *)
(* register without resetting it and returns the register.  The register  *)
(* is modelled CrcWidth bits wide: a bit-serial CRC, most significant      *)
(* input bit first, generator x^CrcWidth + x + 1, reset value all ones.    *)

CrcMask == Pow2(CrcWidth)

CrcResetValue == CrcMask - 1

\* one input bit shifted into the register
CrcShiftBit(dr, bit) ==
    LET top     == ((dr \div (CrcMask \div 2)) + bit) % 2
        shifted == (2 * dr) % CrcMask
    IN  IF top = 1 THEN BitXor(shifted, 3) ELSE shifted

CrcBitTable == [dr \in 0..(CrcMask - 1), bit \in {0, 1} |-> CrcShiftBit(dr, bit)]

\* bit k (0 = least significant) of the 32-bit word that holds a byte
WordBit(word, k) == IF k >= 8 THEN 0 ELSE (word \div Pow2(k)) % 2

\* the register after the n most significant bits of the word went in
CrcWordTable[n \in 0..32] ==
    [dr \in 0..(CrcMask - 1), word \in Byte |->
        IF n = 0 THEN dr
        ELSE CrcBitTable[CrcWordTable[n - 1][dr, word], WordBit(word, 32 - n)]]

\* HAL_CRC_Accumulate(&hcrc, &word, 1): the new value of the data register,
\* which is also the value returned
HAL_CRC_Accumulate(dr, word) == CrcWordTable[32][dr, word]

\* the turns lo..hi of the loop of uint8VerifyCRC, one HAL_CRC_Accumulate call
\* per byte in increasing order, as the map from the register before them to
\* the register after them: the turns of the second half of the range continue
\* from the register the first half leaves
RECURSIVE CrcRange(_, _, _)
CrcRange(data, lo, hi) ==
    IF lo > hi THEN [dr \in 0..(CrcMask - 1) |-> dr]
    ELSE IF lo = hi THEN [dr \in 0..(CrcMask - 1) |-> HAL_CRC_Accumulate(dr, data[lo])]
    ELSE LET mid   == (lo + hi) \div 2
             first == CrcRange(data, lo, mid)
             rest  == CrcRange(data, mid + 1, hi)
         IN  [dr \in 0..(CrcMask - 1) |-> rest[first[dr]]]

\* the loop of uint8VerifyCRC over data[1..n]: the register after it
CrcLoop(dr, data, n) == CrcRange(data, 1, n)[dr]

\* uint8VerifyCRC when every access is defined: the comparison of the
\* accumulated register with the CRC of the host
uint8VerifyCRC(dr, data, n, hostCRC) ==
    IF CrcLoop(dr, data, n) = hostCRC THEN CRC_SUCCESS ELSE CRC_FAIL

---------------------------------------------------------------------------
(* uint8_ValidateAddress *)

uint8_ValidateAddress(a) ==
    IF a >= FLASH_BASE /\ a <= FLASH_END THEN VALID_ADDRESS
    ELSE IF a >= SRAM1_BASE /\ a <= SRAM1_BASE + SRAM_SIZE THEN VALID_ADDRESS
    ELSE NOT_VALID_ADDRESS

---------------------------------------------------------------------------
(* uint8_tExecute_FlashErase: the parameter validation and the erase       *)
(* request it builds.  valid = FALSE is the HAL_ERROR return with no       *)
(* access to the flash controller.                                         *)

\* the number of remaining sectors computed one too small
EraseRequest_ShortRemaining(sectorNumber, numberOfSectors) ==
    IF numberOfSectors > NUMBER_OF_SECTORS /\ sectorNumber # MASS_ERASE
    THEN [valid |-> FALSE, type |-> "none", sector |-> 0, nb |-> 0]
    ELSE IF sectorNumber > NUMBER_OF_SECTORS - 1 /\ sectorNumber # MASS_ERASE
    THEN [valid |-> FALSE, type |-> "none", sector |-> 0, nb |-> 0]
    ELSE IF sectorNumber = MASS_ERASE
    THEN [valid |-> TRUE, type |-> "mass", sector |-> 0, nb |-> 0]
    ELSE LET remaining == U8(NUMBER_OF_SECTORS - 1 - sectorNumber)
             nb        == IF numberOfSectors > remaining THEN remaining
                          ELSE numberOfSectors
         IN  [valid |-> TRUE, type |-> "sectors", sector |-> sectorNumber, nb |-> nb]

\* the number of sectors not clamped to the remaining sectors
EraseRequest_NoClamp(sectorNumber, numberOfSectors) ==
    IF numberOfSectors > NUMBER_OF_SECTORS /\ sectorNumber # MASS_ERASE
    THEN [valid |-> FALSE, type |-> "none", sector |-> 0, nb |-> 0]
    ELSE IF sectorNumber > NUMBER_OF_SECTORS - 1 /\ sectorNumber # MASS_ERASE
    THEN [valid |-> FALSE, type |-> "none", sector |-> 0, nb |-> 0]
    ELSE IF sectorNumber = MASS_ERASE
    THEN [valid |-> TRUE, type |-> "mass", sector |-> 0, nb |-> 0]
    ELSE [valid |-> TRUE, type |-> "sectors", sector |-> sectorNumber,
          nb |-> numberOfSectors]

\* the number of sectors checked without the exception for a mass erase
EraseRequest_CountFirst(sectorNumber, numberOfSectors) ==
    IF numberOfSectors > NUMBER_OF_SECTORS
    THEN [valid |-> FALSE, type |-> "none", sector |-> 0, nb |-> 0]
    ELSE IF sectorNumber > NUMBER_OF_SECTORS - 1 /\ sectorNumber # MASS_ERASE
    THEN [valid |-> FALSE, type |-> "none", sector |-> 0, nb |-> 0]
    ELSE IF sectorNumber = MASS_ERASE
    THEN [valid |-> TRUE, type |-> "mass", sector |-> 0, nb |-> 0]
    ELSE LET remaining == U8(NUMBER_OF_SECTORS - sectorNumber)
             nb        == IF numberOfSectors > remaining THEN remaining
                          ELSE numberOfSectors
         IN  [valid |-> TRUE, type |-> "sectors", sector |-> sectorNumber, nb |-> nb]

\* the sector number compared with the number of sectors, not with the last sector
EraseRequest_SectorOffByOne(sectorNumber, numberOfSectors) ==
    IF numberOfSectors > NUMBER_OF_SECTORS /\ sectorNumber # MASS_ERASE
    THEN [valid |-> FALSE, type |-> "none", sector |-> 0, nb |-> 0]
    ELSE IF sectorNumber > NUMBER_OF_SECTORS /\ sectorNumber # MASS_ERASE
    THEN [valid |-> FALSE, type |-> "none", sector |-> 0, nb |-> 0]
    ELSE IF sectorNumber = MASS_ERASE
    THEN [valid |-> TRUE, type |-> "mass", sector |-> 0, nb |-> 0]
    ELSE LET remaining == U8(NUMBER_OF_SECTORS - sectorNumber)
             nb        == IF numberOfSectors > remaining THEN remaining
                          ELSE numberOfSectors
         IN  [valid |-> TRUE, type |-> "sectors", sector |-> sectorNumber, nb |-> nb]

\* the number of sectors requested never rejected, only clamped
EraseRequest_CountUnchecked(sectorNumber, numberOfSectors) ==
    IF sectorNumber > NUMBER_OF_SECTORS - 1 /\ sectorNumber # MASS_ERASE
    THEN [valid |-> FALSE, type |-> "none", sector |-> 0, nb |-> 0]
    ELSE IF sectorNumber = MASS_ERASE
    THEN [valid |-> TRUE, type |-> "mass", sector |-> 0, nb |-> 0]
    ELSE LET remaining == U8(NUMBER_OF_SECTORS - sectorNumber)
             nb        == IF numberOfSectors > remaining THEN remaining
                          ELSE numberOfSectors
         IN  [valid |-> TRUE, type |-> "sectors", sector |-> sectorNumber, nb |-> nb]

EraseRequest(sectorNumber, numberOfSectors) ==
    IF numberOfSectors > NUMBER_OF_SECTORS /\ sectorNumber # MASS_ERASE
    THEN [valid |-> FALSE, type |-> "none", sector |-> 0, nb |-> 0]
    ELSE IF sectorNumber > NUMBER_OF_SECTORS - 1 /\ sectorNumber # MASS_ERASE
    THEN [valid |-> FALSE, type |-> "none", sector |-> 0, nb |-> 0]
    ELSE IF sectorNumber = MASS_ERASE
    THEN [valid |-> TRUE, type |-> "mass", sector |-> 0, nb |-> 0]
    ELSE LET remaining == U8(NUMBER_OF_SECTORS - sectorNumber)
             nb        == IF numberOfSectors > remaining THEN remaining
                          ELSE numberOfSectors
         IN  [valid |-> TRUE, type |-> "sectors", sector |-> sectorNumber, nb |-> nb]

NoErase == [valid |-> FALSE, type |-> "none", sector |-> 0, nb |-> 0]

---------------------------------------------------------------------------
(* Packets the host may send.  A packet is the length byte, the opcode,    *)
(* the payload and four CRC bytes; the length byte counts what follows it. *)

SimpleOpcodes ==
    { BL_GET_VESRION, BL_GET_HELP, BL_GET_CID, BL_GET_RDP_STATUS, BL_EN_RW_PROTECT,
      BL_MEM_READ, BL_READ_SECTOR_STATUS, BL_OTP_READ, BL_DIS_WR_PROTECT }

\* addresses on both sides of every bound uint8_ValidateAddress compares with,
\* the null address and a peripheral register (GPIOA, 0x40020000)
AddrSamples ==
    { 0, FLASH_BASE - 1, FLASH_BASE, FLASH_END, FLASH_END + 1,
      SRAM1_BASE - 1, SRAM1_BASE, SRAM1_BASE + SRAM_SIZE - 1,
      SRAM1_BASE + SRAM_SIZE, SRAM1_BASE + SRAM_SIZE + 1, 1073872896 }

WriteAddrSamples ==
    { FLASH_BASE, FLASH_END, FLASH_END + 1, SRAM1_BASE, SRAM1_BASE + SRAM_SIZE - 1,
      SRAM1_BASE + SRAM_SIZE, 1073872896 }

\* targets of the mem-write packets whose payload-length byte exceeds the data
\* they carry
OverAddrSamples == { FLASH_BASE, SRAM1_BASE + 16 }

SectorSamples == { 0, 5, NUMBER_OF_SECTORS - 1, NUMBER_OF_SECTORS, MASS_ERASE }

CountSamples == { 0, 1, NUMBER_OF_SECTORS, NUMBER_OF_SECTORS + 1, 255 }

DataBytes == { 170, 85 }

\* bytes a read outside the receive buffer's known contents may return
StaleBytes == { 0, 255 }

\* the RAM cells whose contents the model tracks
RamCells == { SRAM1_BASE, SRAM1_BASE + 1 }

PayloadSamples == UNION { [1..n -> DataBytes] : n \in 0..MaxPayload }

\* opcode and payload of the modelled packets
SimpleBodies == { <<op>> : op \in SimpleOpcodes }

GoToBody(a) == <<BL_GO_TO_ADDR>> \o LE32Bytes(a)

GoToBodies == { GoToBody(a) : a \in AddrSamples }

EraseBodies == { <<BL_FLASH_ERASE, s, c>> : s \in SectorSamples, c \in CountSamples }

\* a mem-write of the data d to the address a, the payload-length byte being n
WriteBody(a, n, d) == <<BL_MEM_WRITE>> \o LE32Bytes(a) \o <<n>> \o d

\* the payload-length byte is the number of data bytes carried, or it exceeds
\* it: by one (the first CRC byte is taken as data) or by five (a byte behind
\* the packet is)
WriteBodies ==
    { WriteBody(a, Len(d), d) : a \in WriteAddrSamples, d \in PayloadSamples }
    \cup { WriteBody(a, Len(d) + 1, d) : a \in OverAddrSamples, d \in PayloadSamples }
    \cup { WriteBody(SRAM1_BASE + 16, 5, <<>>) }

\* the longest packet the length byte can announce: length byte 255, 256 bytes
\* in total, a get-version command followed by bytes the handler ignores
LongBodies == { <<BL_GET_VESRION>> \o [i \in 1..250 |-> 0] }

Bodies == SimpleBodies \cup GoToBodies \cup EraseBodies \cup WriteBodies \cup LongBodies

\* bodies of the frames modelled with a length byte below 4
ShortBodies ==
    SimpleBodies
    \cup { GoToBody(FLASH_BASE), GoToBody(0) }
    \cup { <<BL_FLASH_ERASE, 0, 1>>, <<BL_FLASH_ERASE, NUMBER_OF_SECTORS, 1>> }
    \cup { WriteBody(FLASH_BASE, 1, <<170>>), WriteBody(0, 1, <<170>>) }

\* the bytes the host CRC covers: the length byte and the body
Covered(body) == <<Len(body) + 4>> \o body

\* what the host tool computes: the CRC of the covered bytes from the reset value
HostCrc(body) == CrcLoop(CrcResetValue, Covered(body), Len(body) + 1)

\* CRC fields of the modelled packets: the host's CRC, the value the CRC unit
\* will compute in its current state, and a value that differs from that one
CrcFields(dr, body) ==
    LET now == CrcLoop(dr, Covered(body), Len(body) + 1)
    IN  { HostCrc(body), now, (now + 1) % CrcMask }

WellFormed(dr) ==
    UNION { { Covered(body) \o LE32Bytes(c) : c \in CrcFields(dr, body) } :
            body \in Bodies }

\* frames whose length byte announces fewer than the five bytes of the shortest
\* packet: the rest of the buffer holds what an earlier packet left there
ShortFrames ==
    { [ (Covered(body) \o LE32Bytes(HostCrc(body))) EXCEPT ![1] = l ] :
        body \in ShortBodies, l \in 0..3 }

---------------------------------------------------------------------------
(* Events of the log *)

Ev(op, kind, bytes, x, y, r) ==
    [op |-> op, kind |-> kind, bytes |-> bytes, x |-> x, y |-> y, r |-> r]

\* HAL_UART_Transmit(&huart2, bytes, Len(bytes), HAL_MAX_DELAY)
HAL_UART_Transmit(kind, bytes) == Ev("tx", kind, bytes, 0, 0, 0)

voidSendACK(replyLength) == HAL_UART_Transmit("ack", <<BL_ACK, replyLength>>)

voidSendNACK == HAL_UART_Transmit("nack", <<BL_NACK>>)

EvUnlock == Ev("unlock", "", <<>>, 0, 0, 0)
EvLock == Ev("lock", "", <<>>, 0, 0, 0)
EvErase(req, st) == Ev("erase", req.type, <<>>, req.sector, req.nb, st)
EvProgram(a, v, st) == Ev("program", "", <<>>, a, v, st)
EvStore(a, v) == Ev("store", "", <<>>, a, v, 0)
EvJump(a) == Ev("jump", "", <<>>, a, 0, 0)
EvLed(on) == Ev("led", "", <<>>, on, 0, 0)

---------------------------------------------------------------------------
(* The state machine *)

HandlerOf(opcode) ==
    CASE opcode = BL_GET_VESRION        -> "GetVER"
      [] opcode = BL_GET_HELP           -> "GetHelp"
      [] opcode = BL_GET_CID            -> "GetCID"
      [] opcode = BL_GET_RDP_STATUS     -> "GetRDPStatus"
      [] opcode = BL_GO_TO_ADDR         -> "GoToAddress"
      [] opcode = BL_FLASH_ERASE        -> "FlashErase"
      [] opcode = BL_MEM_WRITE          -> "MemWrite"
      [] opcode = BL_EN_RW_PROTECT      -> "EnRWProtect"
      [] opcode = BL_MEM_READ           -> "MemRead"
      [] opcode = BL_READ_SECTOR_STATUS -> "ReadSectorStatus"
      [] opcode = BL_OTP_READ           -> "OTPRead"
      [] opcode = BL_DIS_WR_PROTECT     -> "DisWRProtect"

Init ==
    /\ pc = "AwaitingPacket"
    /\ packet = <<>>
    /\ crcDR = CrcResetValue
    /\ hcrcState = "READY"
    /\ flashLocked = TRUE
    /\ ld5 = FALSE
    /\ mem = [c \in RamCells |-> 0]
    /\ log = <<>>
    /\ crcOk = FALSE
    /\ lAddress = 0
    /\ lValid = NOT_VALID_ADDRESS
    /\ lLength = 0
    /\ lIter = 0
    /\ lErase = NoErase
    /\ lStatus = 0

\* The dispatcher: a packet has arrived in the receive buffer and the handler of
\* its opcode is called.  The locals of the handlers are fresh in every call.
Receive ==
    /\ pc = "AwaitingPacket"
    /\ \E p \in WellFormed(crcDR) \cup ShortFrames :
         /\ packet' = p
         /\ pc' = HandlerOf(p[2])
    /\ UNCHANGED <<crcDR, hcrcState, flashLocked, ld5, mem, log, crcOk, lAddress,
                   lValid, lLength, lIter, lErase, lStatus>>

\* The handler returns to the dispatcher, which waits for the next packet: the
\* locals of the handler are gone and the buffer is free for the next packet.
Return ==
    /\ pc \in {"ResponseSent", "NackSent"}
    /\ pc' = "AwaitingPacket"
    /\ packet' = <<>>
    /\ log' = <<>>
    /\ crcOk' = FALSE
    /\ lAddress' = 0
    /\ lValid' = NOT_VALID_ADDRESS
    /\ lLength' = 0
    /\ lIter' = 0
    /\ lErase' = NoErase
    /\ lStatus' = 0
    /\ UNCHANGED <<crcDR, hcrcState, flashLocked, ld5, mem>>

\* Local_uint8CmdLen = copy_puint8CmdPacket[0] + 1, an 8-bit value
CmdLen == U8(packet[1] + 1)

\* Local_uint32HostCRC = *((uint32_t*)(copy_puint8CmdPacket + Local_uint8CmdLen - 4))
HostCRCField ==
    Word32(packet[CmdLen - 3], packet[CmdLen - 2], packet[CmdLen - 1], packet[CmdLen])

\* (uint8_t)(Local_uint8CmdLen - 4), the length passed to uint8VerifyCRC
CrcLength == (CmdLen + 252) % 256

\* The call uint8VerifyCRC(packet, CmdLen - 4, HostCRC) of every handler: the
\* possible pairs <<status, data register afterwards>>.
\*  - CmdLen >= 5: the loop accumulates packet[0 .. CmdLen-5] and the result is
\*    compared with the last four bytes of the packet.
\*  - CmdLen = 4: the length is 0, the loop does not run and the uninitialised
\*    Local_uint8AccCRC is compared: either outcome.
\*  - CmdLen < 4 (length byte 0..2, or 255 where CmdLen wraps to 0): the host CRC
\*    is read at packet + CmdLen - 4, in front of the buffer, so the bytes
\*    compared are not the packet's: either outcome.  The 8-bit length is
\*    252..255; the loop accumulates that many bytes, which are the packet's
\*    when the packet is that long and otherwise lie behind it (any register
\*    value).
CrcOutcomes ==
    IF CmdLen >= 5 /\ CmdLen <= Len(packet)
    THEN { << uint8VerifyCRC(crcDR, packet, CmdLen - 4, HostCRCField),
              CrcLoop(crcDR, packet, CmdLen - 4) >> }
    ELSE IF CmdLen = 4
    THEN { <<st, crcDR>> : st \in {CRC_SUCCESS, CRC_FAIL} }
    ELSE IF CrcLength <= Len(packet)
    THEN { <<st, CrcLoop(crcDR, packet, CrcLength)>> : st \in {CRC_SUCCESS, CRC_FAIL} }
    ELSE { <<st, dr>> : st \in {CRC_SUCCESS, CRC_FAIL}, dr \in 0..(CrcMask - 1) }

\* a handler that skips the check of the CRC status
CrcPassed_Unchecked(o) == TRUE

\* if (Local_uint8CRCStatus == CRC_SUCCESS)
CrcPassed(o) == o[1] = CRC_SUCCESS

\* the part every handler starts with: the CRC unit afterwards
\* (__HAL_CRC_RESET_HANDLE_STATE sets hcrc.State and leaves the data register)
Verified(o) ==
    /\ crcDR' = o[2]
    /\ hcrcState' = "RESET"
    /\ crcOk' = (o[1] = CRC_SUCCESS)

\* the handlers whose reply depends on nothing the packet carries: CRC check,
\* then the ACK frame and the payload, or the NACK
Reply(frames) ==
    /\ \E o \in CrcOutcomes :
         /\ Verified(o)
         /\ IF CrcPassed(o)
            THEN log' = log \o frames /\ pc' = "ResponseSent"
            ELSE log' = log \o <<voidSendNACK>> /\ pc' = "NackSent"
    /\ UNCHANGED <<packet, flashLocked, ld5, mem, lAddress, lValid, lLength, lIter,
                   lErase, lStatus>>

\* the version byte sent without the ACK frame in front of it
BL_voidHandleGetVERCmd_NoAck ==
    /\ pc = "GetVER"
    /\ Reply(<< HAL_UART_Transmit("data", <<BL_VERSION>>) >>)

BL_voidHandleGetVERCmd ==
    /\ pc = "GetVER"
    /\ Reply(<< voidSendACK(1), HAL_UART_Transmit("data", <<BL_VERSION>>) >>)

\* the table with get-chip-id twice and without disable-write-protect
SupportedCommands_Duplicate ==
    << BL_GET_VESRION, BL_GET_HELP, BL_GET_CID, BL_GET_CID, BL_GET_RDP_STATUS,
       BL_GO_TO_ADDR, BL_FLASH_ERASE, BL_MEM_WRITE, BL_EN_RW_PROTECT, BL_MEM_READ,
       BL_READ_SECTOR_STATUS, BL_OTP_READ >>

\* Local_uint8BLSupportedCommands
SupportedCommands ==
    << BL_GET_VESRION, BL_GET_HELP, BL_GET_CID, BL_GET_RDP_STATUS, BL_GO_TO_ADDR,
       BL_FLASH_ERASE, BL_MEM_WRITE, BL_EN_RW_PROTECT, BL_MEM_READ,
       BL_READ_SECTOR_STATUS, BL_OTP_READ, BL_DIS_WR_PROTECT >>

BL_voidHandleGetHelpCmd ==
    /\ pc = "GetHelp"
    /\ Reply(<< voidSendACK(Len(SupportedCommands)),
                HAL_UART_Transmit("data", SupportedCommands) >>)

\* values the device identity registers may hold: DBGMCU_IDCODE of an STM32F407
\* (0x10076413) and the option word at 0x1FFFC000 with RDP level 0 or 1
IdcodeSamples == { 268919827 }
OptionWordSamples == { 268413676, 268418028 }

\* (uint8_t*)&Local_uint16CID: the two bytes of IDCODE & 0x0fff, low byte first
CIDBytes(idcode) == << (idcode % 4096) % 256, (idcode % 4096) \div 256 >>

\* (uint8_t)((RDP_USER_OPTION_WORD >> 8) & 0xff)
RDPStatus(word) == (word \div 256) % 256

BL_voidHandleGetCIDcmd ==
    /\ pc = "GetCID"
    /\ \E id \in IdcodeSamples :
         Reply(<< voidSendACK(2), HAL_UART_Transmit("data", CIDBytes(id)) >>)

BL_voidHandleGetRDPStatusCmd ==
    /\ pc = "GetRDPStatus"
    /\ \E w \in OptionWordSamples :
         Reply(<< voidSendACK(1), HAL_UART_Transmit("data", <<RDPStatus(w)>>) >>)

BL_voidHandleEnRWProtectCmd ==
    /\ pc = "EnRWProtect"
    /\ Reply(<< voidSendACK(1) >>)

\* mem-read answered with the ACK and one payload byte
BL_voidHandleMemReadCmd_SendsByte ==
    /\ pc = "MemRead"
    /\ Reply(<< voidSendACK(1), HAL_UART_Transmit("data", <<0>>) >>)

BL_voidHandleMemReadCmd ==
    /\ pc = "MemRead"
    /\ Reply(<< voidSendACK(1) >>)

BL_voidHandleReadSectorStatusCmd ==
    /\ pc = "ReadSectorStatus"
    /\ Reply(<< voidSendACK(1) >>)

BL_voidHandleOTPReadCmd ==
    /\ pc = "OTPRead"
    /\ Reply(<< voidSendACK(1) >>)

BL_voidHandleDisWRProtectCmd ==
    /\ pc = "DisWRProtect"
    /\ Reply(<< voidSendACK(1) >>)

---------------------------------------------------------------------------
(* BL_voidHandleGoToAddressCmd *)

\* *((uint32_t*)&copy_puint8CmdPacket[2])
PacketAddress == Word32(packet[3], packet[4], packet[5], packet[6])

\* the address incremented instead of its bit 0 set
JumpTarget_Increment(a) == a + 1

\* Local_uint32Address |= 0x1
JumpTarget(a) == BitOr(a, 1)

\* reply length the go-to-address handler announces
GoToReplyLength == 4

\* an invalid address answered with a NACK
AddressIndicator_Nack(v) ==
    IF v = VALID_ADDRESS THEN HAL_UART_Transmit("data", <<v>>) ELSE voidSendNACK

\* HAL_UART_Transmit(&huart2, &Local_uint8AddressValidStatus, 1, HAL_MAX_DELAY)
AddressIndicator(v) == HAL_UART_Transmit("data", <<v>>)

\* control transferred to a valid address before the indicator byte is sent
BL_voidHandleGoToAddressCmd_JumpFirst ==
    /\ pc = "GoToAddress"
    /\ \E o \in CrcOutcomes :
         /\ Verified(o)
         /\ IF CrcPassed(o)
            THEN LET a == PacketAddress
                     v == uint8_ValidateAddress(a)
                 IN  /\ lAddress' = a
                     /\ lValid' = v
                     /\ IF v = VALID_ADDRESS
                        THEN /\ log' = log \o << voidSendACK(GoToReplyLength),
                                                 EvJump(JumpTarget(a)) >>
                             /\ pc' = "Jumped"
                        ELSE /\ log' = log \o << voidSendACK(GoToReplyLength),
                                                 AddressIndicator(v) >>
                             /\ pc' = "ResponseSent"
            ELSE /\ log' = log \o <<voidSendNACK>>
                 /\ pc' = "NackSent"
                 /\ UNCHANGED <<lAddress, lValid>>
    /\ UNCHANGED <<packet, flashLocked, ld5, mem, lLength, lIter, lErase, lStatus>>

BL_voidHandleGoToAddressCmd ==
    /\ pc = "GoToAddress"
    /\ \E o \in CrcOutcomes :
         /\ Verified(o)
         /\ IF CrcPassed(o)
            THEN LET a == PacketAddress
                     v == uint8_ValidateAddress(a)
                 IN  /\ lAddress' = a
                     /\ lValid' = v
                     /\ IF v = VALID_ADDRESS
                        THEN /\ log' = log \o << voidSendACK(GoToReplyLength),
                                                 AddressIndicator(v),
                                                 EvJump(JumpTarget(a)) >>
                             /\ pc' = "Jumped"
                        ELSE /\ log' = log \o << voidSendACK(GoToReplyLength),
                                                 AddressIndicator(v) >>
                             /\ pc' = "ResponseSent"
            ELSE /\ log' = log \o <<voidSendNACK>>
                 /\ pc' = "NackSent"
                 /\ UNCHANGED <<lAddress, lValid>>
    /\ UNCHANGED <<packet, flashLocked, ld5, mem, lLength, lIter, lErase, lStatus>>

---------------------------------------------------------------------------
(* BL_voidHandleFlashEraseCmd and uint8_tExecute_FlashErase *)

\* results of an erase or program operation of the flash driver
FlashResults == { HAL_OK, HAL_ERROR }

\* CRC check, ACK, LED on, and uint8_tExecute_FlashErase up to its validation
BL_voidHandleFlashEraseCmd ==
    /\ pc = "FlashErase"
    /\ \E o \in CrcOutcomes :
         /\ Verified(o)
         /\ IF CrcPassed(o)
            THEN LET req == EraseRequest(packet[3], packet[4])
                 IN  /\ log' = log \o << voidSendACK(1), EvLed(1) >>
                     /\ ld5' = TRUE
                     /\ lErase' = req
                     /\ lStatus' = IF req.valid THEN HAL_OK ELSE HAL_ERROR
                     /\ pc' = IF req.valid THEN "FE_Unlock" ELSE "FE_Status"
            ELSE /\ log' = log \o <<voidSendNACK>>
                 /\ pc' = "NackSent"
                 /\ UNCHANGED <<ld5, lErase, lStatus>>
    /\ UNCHANGED <<packet, flashLocked, mem, lAddress, lValid, lLength, lIter>>

\* HAL_FLASH_Unlock()
FE_Unlock ==
    /\ pc = "FE_Unlock"
    /\ flashLocked' = FALSE
    /\ log' = Append(log, EvUnlock)
    /\ pc' = "FE_Erase"
    /\ UNCHANGED <<packet, crcDR, hcrcState, ld5, mem, crcOk, lAddress, lValid,
                   lLength, lIter, lErase, lStatus>>

\* Local_ErrorStatus = HAL_FLASHEx_Erase(&Local_MyErase, &Local_uint32SectorError)
FE_Erase ==
    /\ pc = "FE_Erase"
    /\ \E st \in FlashResults :
         /\ lStatus' = st
         /\ log' = Append(log, EvErase(lErase, st))
    /\ pc' = "FE_Lock"
    /\ UNCHANGED <<packet, crcDR, hcrcState, flashLocked, ld5, mem, crcOk, lAddress,
                   lValid, lLength, lIter, lErase>>

\* the flash controller locked again only after a successful erase
FE_Lock_OnSuccess ==
    /\ pc = "FE_Lock"
    /\ flashLocked' = (lStatus = HAL_OK)
    /\ log' = IF lStatus = HAL_OK THEN Append(log, EvLock) ELSE log
    /\ pc' = "FE_Status"
    /\ UNCHANGED <<packet, crcDR, hcrcState, ld5, mem, crcOk, lAddress, lValid,
                   lLength, lIter, lErase, lStatus>>

\* HAL_FLASH_Lock()
FE_Lock ==
    /\ pc = "FE_Lock"
    /\ flashLocked' = TRUE
    /\ log' = Append(log, EvLock)
    /\ pc' = "FE_Status"
    /\ UNCHANGED <<packet, crcDR, hcrcState, ld5, mem, crcOk, lAddress, lValid,
                   lLength, lIter, lErase, lStatus>>

\* the status byte always HAL_OK, whatever the erase returned
FE_Status_AlwaysOk ==
    /\ pc = "FE_Status"
    /\ ld5' = FALSE
    /\ log' = log \o << EvLed(0), HAL_UART_Transmit("data", <<HAL_OK>>) >>
    /\ pc' = "ResponseSent"
    /\ UNCHANGED <<packet, crcDR, hcrcState, flashLocked, mem, crcOk, lAddress,
                   lValid, lLength, lIter, lErase, lStatus>>

\* LED off and the erase status sent to the host
FE_Status ==
    /\ pc = "FE_Status"
    /\ ld5' = FALSE
    /\ log' = log \o << EvLed(0), HAL_UART_Transmit("data", <<lStatus>>) >>
    /\ pc' = "ResponseSent"
    /\ UNCHANGED <<packet, crcDR, hcrcState, flashLocked, mem, crcOk, lAddress,
                   lValid, lLength, lIter, lErase, lStatus>>

---------------------------------------------------------------------------
(* BL_voidHandleMemWriteCmd and uint8_ExecuteMemoryWrite *)

\* the flash branch taken below FLASH_END only
InFlashRegion_BelowEnd(a) == a >= FLASH_BASE /\ a < FLASH_END

\* the branch of uint8_ExecuteMemoryWrite taken for an address
InFlashRegion(a) == a >= FLASH_BASE /\ a <= FLASH_END

\* CRC check, address validation, ACK, and the entry of uint8_ExecuteMemoryWrite
BL_voidHandleMemWriteCmd ==
    /\ pc = "MemWrite"
    /\ \E o \in CrcOutcomes :
         /\ Verified(o)
         /\ IF CrcPassed(o)
            THEN LET a == PacketAddress
                     v == uint8_ValidateAddress(a)
                 IN  /\ lAddress' = a
                     /\ lValid' = v
                     /\ log' = Append(log, voidSendACK(1))
                     /\ IF v = VALID_ADDRESS
                        THEN /\ lLength' = packet[7]
                             /\ lStatus' = HAL_ERROR
                             /\ pc' = IF InFlashRegion(a) THEN "MW_Unlock" ELSE "MW_Store"
                        ELSE /\ lLength' = 0
                             /\ lStatus' = WRITING_ERROR
                             /\ pc' = "MW_Status"
            ELSE /\ log' = log \o <<voidSendNACK>>
                 /\ pc' = "NackSent"
                 /\ UNCHANGED <<lAddress, lValid, lLength, lStatus>>
    /\ UNCHANGED <<packet, flashLocked, ld5, mem, lIter, lErase>>

\* the buffer taken one byte too early, at the payload-length byte
BufferByte_FromLengthByte(i) ==
    IF 7 + i \in DOMAIN packet THEN { packet[7 + i] } ELSE StaleBytes

\* Copy_Puint8Buffer[i], the buffer being &copy_puint8CmdPacket[7]: the values
\* the read may return
BufferByte(i) ==
    IF 8 + i \in DOMAIN packet THEN { packet[8 + i] } ELSE StaleBytes

\* the programming loop entered without the call of HAL_FLASH_Unlock
MW_Unlock_Skipped ==
    /\ pc = "MW_Unlock"
    /\ lIter' = 0
    /\ pc' = "MW_Program"
    /\ UNCHANGED <<packet, crcDR, hcrcState, flashLocked, ld5, mem, log, crcOk,
                   lAddress, lValid, lLength, lErase, lStatus>>

\* HAL_FLASH_Unlock()
MW_Unlock ==
    /\ pc = "MW_Unlock"
    /\ flashLocked' = FALSE
    /\ log' = Append(log, EvUnlock)
    /\ lIter' = 0
    /\ pc' = "MW_Program"
    /\ UNCHANGED <<packet, crcDR, hcrcState, ld5, mem, crcOk, lAddress, lValid,
                   lLength, lErase, lStatus>>

\* one turn of the programming loop, or its exit
MW_Program ==
    /\ pc = "MW_Program"
    /\ IF lIter < lLength
       THEN /\ \E b \in BufferByte(lIter), st \in FlashResults :
                 /\ lStatus' = st
                 /\ log' = Append(log, EvProgram(lAddress + lIter, b, st))
            /\ lIter' = lIter + 1
            /\ pc' = "MW_Program"
       ELSE /\ pc' = "MW_Lock"
            /\ UNCHANGED <<lStatus, log, lIter>>
    /\ UNCHANGED <<packet, crcDR, hcrcState, flashLocked, ld5, mem, crcOk, lAddress,
                   lValid, lLength, lErase>>

\* HAL_FLASH_Lock()
MW_Lock ==
    /\ pc = "MW_Lock"
    /\ flashLocked' = TRUE
    /\ log' = Append(log, EvLock)
    /\ pc' = "MW_Status"
    /\ UNCHANGED <<packet, crcDR, hcrcState, ld5, mem, crcOk, lAddress, lValid,
                   lLength, lIter, lErase, lStatus>>

\* the copy loop of the RAM branch without its exit
MW_Store_NoExit ==
    /\ pc = "MW_Store"
    /\ lIter < lLength
    /\ \E b \in BufferByte(lIter) :
         /\ log' = Append(log, EvStore(lAddress + lIter, b))
         /\ mem' = IF lAddress + lIter \in RamCells
                   THEN [mem EXCEPT ![lAddress + lIter] = b]
                   ELSE mem
    /\ lIter' = lIter + 1
    /\ pc' = "MW_Store"
    /\ UNCHANGED <<packet, crcDR, hcrcState, flashLocked, ld5, crcOk, lAddress,
                   lValid, lLength, lErase, lStatus>>

\* one turn of the copy loop of the RAM branch, or its exit
MW_Store ==
    /\ pc = "MW_Store"
    /\ IF lIter < lLength
       THEN /\ \E b \in BufferByte(lIter) :
                 /\ log' = Append(log, EvStore(lAddress + lIter, b))
                 /\ mem' = IF lAddress + lIter \in RamCells
                           THEN [mem EXCEPT ![lAddress + lIter] = b]
                           ELSE mem
            /\ lIter' = lIter + 1
            /\ pc' = "MW_Store"
       ELSE /\ pc' = "MW_Status"
            /\ UNCHANGED <<log, mem, lIter>>
    /\ UNCHANGED <<packet, crcDR, hcrcState, flashLocked, ld5, crcOk, lAddress,
                   lValid, lLength, lErase, lStatus>>

\* a failed write answered with a NACK instead of the status byte
MW_Status_NackOnFailure ==
    /\ pc = "MW_Status"
    /\ log' = Append(log, IF lStatus = HAL_OK
                          THEN HAL_UART_Transmit("data", <<lStatus>>)
                          ELSE voidSendNACK)
    /\ pc' = "ResponseSent"
    /\ UNCHANGED <<packet, crcDR, hcrcState, flashLocked, ld5, mem, crcOk, lAddress,
                   lValid, lLength, lIter, lErase, lStatus>>

\* the writing status sent to the host
MW_Status ==
    /\ pc = "MW_Status"
    /\ log' = Append(log, HAL_UART_Transmit("data", <<lStatus>>))
    /\ pc' = "ResponseSent"
    /\ UNCHANGED <<packet, crcDR, hcrcState, flashLocked, ld5, mem, crcOk, lAddress,
                   lValid, lLength, lIter, lErase, lStatus>>

---------------------------------------------------------------------------

Next ==
    \/ Receive
    \/ Return
    \/ BL_voidHandleGetVERCmd
    \/ BL_voidHandleGetHelpCmd
    \/ BL_voidHandleGetCIDcmd
    \/ BL_voidHandleGetRDPStatusCmd
    \/ BL_voidHandleGoToAddressCmd
    \/ BL_voidHandleFlashEraseCmd
    \/ FE_Unlock
    \/ FE_Erase
    \/ FE_Lock
    \/ FE_Status
    \/ BL_voidHandleMemWriteCmd
    \/ MW_Unlock
    \/ MW_Program
    \/ MW_Lock
    \/ MW_Store
    \/ MW_Status
    \/ BL_voidHandleEnRWProtectCmd
    \/ BL_voidHandleMemReadCmd
    \/ BL_voidHandleReadSectorStatusCmd
    \/ BL_voidHandleOTPReadCmd
    \/ BL_voidHandleDisWRProtectCmd

Spec == Init /\ [][Next]_vars

\* The flash-erase handler entered on a fresh device with any sector number and
\* any number of sectors a packet can carry.
InitErase ==
    /\ pc = "FlashErase"
    /\ packet \in { Covered(<<BL_FLASH_ERASE, sn, nb>>)
                      \o LE32Bytes(HostCrc(<<BL_FLASH_ERASE, sn, nb>>)) :
                    sn \in Byte, nb \in Byte }
    /\ crcDR = CrcResetValue
    /\ hcrcState = "READY"
    /\ flashLocked = TRUE
    /\ ld5 = FALSE
    /\ mem = [c \in RamCells |-> 0]
    /\ log = <<>>
    /\ crcOk = FALSE
    /\ lAddress = 0
    /\ lValid = NOT_VALID_ADDRESS
    /\ lLength = 0
    /\ lIter = 0
    /\ lErase = NoErase
    /\ lStatus = 0

SpecErase == InitErase /\ [][Next]_vars

---------------------------------------------------------------------------
(* What the log of the packet being handled shows *)

Events(op) == SelectSeq(log, LAMBDA e : e.op = op)

Frames(kind) == SelectSeq(log, LAMBDA e : e.op = "tx" /\ e.kind = kind)

RECURSIVE Flatten(_)
Flatten(frames) ==
    IF frames = <<>> THEN <<>> ELSE Head(frames).bytes \o Flatten(Tail(frames))

\* every byte sent to the host, in order
Wire == Flatten(Events("tx"))

\* the bytes sent outside the ACK and NACK frames
PayloadSent == Flatten(Frames("data"))

FlashOps == SelectSeq(log, LAMBDA e : e.op \in {"unlock", "lock", "erase", "program"})

\* the handler of the current packet has finished
Handled == pc \in {"ResponseSent", "NackSent", "Jumped"}

\* the handler running (or just finished)
Opcode == packet[2]

\* positions of the events of a kind in the log
Positions(op) == { i \in 1..Len(log) : log[i].op = op }

---------------------------------------------------------------------------
(* Claims *)

\* C1: when the CRC verification of a packet fails, the handling of that packet
\* unlocks, erases and programs nothing in flash, stores nothing in memory and
\* transfers control nowhere, and the only byte sent is the NACK byte 0x7F.
C1_CrcFailOnlyNack ==
    /\ pc = "NackSent" => ~crcOk /\ log = <<voidSendNACK>> /\ Wire = <<BL_NACK>>
    /\ ~crcOk =>
         /\ \A i \in 1..Len(log) : log[i].op = "tx" /\ log[i].kind = "nack"
         /\ Len(log) <= 1
         /\ flashLocked
         /\ pc \in {"AwaitingPacket", "NackSent"} \cup { HandlerOf(op) : op \in 81..92 }

\* a mem-write packet of full length whose CRC check failed
C1_Witness ==
    /\ pc = "NackSent"
    /\ Opcode = BL_MEM_WRITE
    /\ CmdLen >= 5
    /\ uint8_ValidateAddress(PacketAddress) = VALID_ADDRESS
    /\ packet[7] > 0

C3_ReplyLengthMatches ==
    (Handled /\ crcOk /\ CmdLen >= 5) =>
        /\ Len(Frames("ack")) = 1
        /\ Frames("ack")[1].bytes[2] = Len(PayloadSent)

\* C4: the address validator returns VALID_ADDRESS exactly for the addresses
\* in flash [FLASH_BASE, FLASH_END] or in SRAM [SRAM_BASE, SRAM_BASE + 128*1024),
\* so SRAM_BASE + 128*1024 itself is invalid.
C4_ValidIffInRegions ==
    (Handled /\ crcOk /\ Opcode \in {BL_GO_TO_ADDR, BL_MEM_WRITE}) =>
        /\ lAddress = PacketAddress
        /\ lValid = VALID_ADDRESS <=>
              \/ (FLASH_BASE <= lAddress /\ lAddress <= FLASH_END)
              \/ (SRAM1_BASE <= lAddress /\ lAddress < SRAM1_BASE + SRAM_SIZE)

C6_LockedOnReturn ==
    /\ pc \in {"AwaitingPacket", "ResponseSent", "NackSent", "Jumped"} => flashLocked
    /\ pc \in {"FE_Status", "MW_Status"} => flashLocked
    /\ \A i \in Positions("tx") :
         log[i].kind = "data" =>
            \A u \in Positions("unlock") :
               u < i => \E l \in Positions("lock") : u < l /\ l < i

\* a flash mem-write whose last byte-program operation failed, status sent
C6_Witness ==
    /\ pc = "ResponseSent"
    /\ Opcode = BL_MEM_WRITE
    /\ Len(Events("unlock")) = 1
    /\ Len(Events("program")) = 2
    /\ Events("program")[2].r = HAL_ERROR
    /\ flashLocked

\* the flash-erase handler has answered a packet whose CRC passed
EraseHandled == pc = "ResponseSent" /\ Opcode = BL_FLASH_ERASE /\ crcOk

\* copy_puint8CmdPacket[2] and copy_puint8CmdPacket[3] of an erase packet
SectorNumber == packet[3]
SectorCount == packet[4]

\* sectors SectorNumber .. 11 erased by one operation, and its status reported
ErasedToLastSector ==
    /\ Len(Events("erase")) = 1
    /\ Events("erase")[1].kind = "sectors"
    /\ Events("erase")[1].x = SectorNumber
    /\ Events("erase")[1].y = NUMBER_OF_SECTORS - SectorNumber
    /\ PayloadSent = << Events("erase")[1].r >>

\* C7 as stated: a non-mass erase request with sector_number < 12 and
\* sector_number + sector_count > 12, for every sector_count 0..255, is not
\* rejected: sector_count is clamped to 12 - sector_number, exactly the sectors
\* sector_number..11 are erased and the status of that erase is reported.
C7_ClampAnyCount ==
    (EraseHandled /\ SectorNumber < NUMBER_OF_SECTORS
       /\ SectorNumber + SectorCount > NUMBER_OF_SECTORS) => ErasedToLastSector

\* C7 amended: the same for the requests with sector_count <= 12.
C7_ClampCountUpTo12 ==
    (EraseHandled /\ SectorNumber < NUMBER_OF_SECTORS
       /\ SectorCount <= NUMBER_OF_SECTORS
       /\ SectorNumber + SectorCount > NUMBER_OF_SECTORS) => ErasedToLastSector

\* sector 5 with 12 sectors requested: 7 sectors erased
C7_Witness ==
    /\ EraseHandled
    /\ SectorNumber = 5
    /\ SectorCount = NUMBER_OF_SECTORS
    /\ Len(Events("erase")) = 1
    /\ Events("erase")[1].y = 7

\* C8: every sector-erase operation issued to the flash driver, for any 8-bit
\* sector number and number of sectors, starts at a sector <= 11 and ends at or
\* before sector 11 (start + number of sectors <= 12).
C8_EraseInRange ==
    /\ \A i \in 1..Len(log) :
         (log[i].op = "erase" /\ log[i].kind = "sectors") =>
            /\ log[i].x <= NUMBER_OF_SECTORS - 1
            /\ log[i].x + log[i].y <= NUMBER_OF_SECTORS
            /\ log[i].x = SectorNumber
            /\ log[i].y <= SectorCount
    /\ (pc \in {"FE_Unlock", "FE_Erase"} /\ lErase.type = "sectors") =>
            /\ lErase.sector <= NUMBER_OF_SECTORS - 1
            /\ lErase.sector + lErase.nb <= NUMBER_OF_SECTORS

\* the last sector erased by a request for more sectors than remain
C8_Witness ==
    /\ EraseHandled
    /\ SectorNumber = NUMBER_OF_SECTORS - 1
    /\ SectorCount = NUMBER_OF_SECTORS
    /\ Len(Events("erase")) = 1
    /\ Events("erase")[1].x = NUMBER_OF_SECTORS - 1
    /\ Events("erase")[1].y = 1

\* C9: an erase request whose sector number is MASS_ERASE (0xFF) issues one
\* mass-erase operation, for every number of sectors 0..255, and is never
\* rejected by the parameter validation.
C9_MassEraseAlways ==
    (EraseHandled /\ SectorNumber = MASS_ERASE) =>
        /\ Len(Events("erase")) = 1
        /\ Events("erase")[1].kind = "mass"
        /\ Len(Events("unlock")) = 1
        /\ PayloadSent = << Events("erase")[1].r >>

\* a mass erase requested with the number of sectors 255
C9_Witness ==
    /\ EraseHandled
    /\ SectorNumber = MASS_ERASE
    /\ SectorCount = 255
    /\ Len(Events("erase")) = 1

\* C10: a non-mass erase request with sector_number >= 12 fails with the
\* invalid-parameter status HAL_ERROR and neither unlocks the flash controller
\* nor erases anything.
C10_BadSectorRejected ==
    /\ (EraseHandled /\ SectorNumber >= NUMBER_OF_SECTORS /\ SectorNumber # MASS_ERASE) =>
          /\ FlashOps = <<>>
          /\ PayloadSent = <<HAL_ERROR>>
    /\ (pc \in {"FE_Unlock", "FE_Erase", "FE_Lock"}) =>
          (SectorNumber < NUMBER_OF_SECTORS \/ SectorNumber = MASS_ERASE)

\* sector 12, the first sector number out of range, with one sector requested
C10_Witness ==
    /\ EraseHandled
    /\ SectorNumber = NUMBER_OF_SECTORS
    /\ SectorCount = 1
    /\ PayloadSent = <<HAL_ERROR>>

\* C11: a non-mass erase request with sector_count > 12 fails with the
\* invalid-parameter status HAL_ERROR and neither unlocks the flash controller
\* nor erases anything, whatever the sector number.
C11_BadCountRejected ==
    /\ (EraseHandled /\ SectorCount > NUMBER_OF_SECTORS /\ SectorNumber # MASS_ERASE) =>
          /\ FlashOps = <<>>
          /\ PayloadSent = <<HAL_ERROR>>
    /\ (pc \in {"FE_Unlock", "FE_Erase", "FE_Lock"}) =>
          (SectorCount <= NUMBER_OF_SECTORS \/ SectorNumber = MASS_ERASE)

\* sector 0 with 255 sectors requested: rejected, nothing erased
C11_Witness ==
    /\ EraseHandled
    /\ SectorNumber = 0
    /\ SectorCount = 255
    /\ FlashOps = <<>>
    /\ PayloadSent = <<HAL_ERROR>>

\* the mem-write handler has answered a packet of full length whose CRC passed
WriteHandled == pc = "ResponseSent" /\ Opcode = BL_MEM_WRITE /\ crcOk /\ CmdLen >= 5

\* C12: a mem-write packet whose CRC passes and whose address the validator
\* rejects stores no byte, performs no flash unlock or program operation, and
\* its status byte is a failure status: a mem-write that wrote every byte
\* successfully never reports that same status byte.
C12_InvalidAddressFails ==
    /\ (WriteHandled /\ lValid = NOT_VALID_ADDRESS) =>
          /\ Events("store") = <<>>
          /\ FlashOps = <<>>
          /\ PayloadSent = <<WRITING_ERROR>>
    /\ (WriteHandled /\ lValid = VALID_ADDRESS /\ lLength >= 1
          /\ \A i \in Positions("program") : log[i].r = HAL_OK) =>
          PayloadSent # <<WRITING_ERROR>>

\* C13: in a flash mem-write, once the byte-program operation of a byte has
\* failed, no byte-program operation is issued for a later byte of the request.
C13_StopAtFirstFailure ==
    \A i \in Positions("program"), j \in Positions("program") :
        i < j => log[i].r = HAL_OK

\* C14: in a flash mem-write in which a byte-program operation failed, the status
\* sent to the host is a failure status (not HAL_OK, the status of a successful
\* write), whatever the outcome of the operations at the other positions.
C14_AnyFailureReported ==
    (WriteHandled /\ \E i \in Positions("program") : log[i].r # HAL_OK) =>
        /\ Len(PayloadSent) = 1
        /\ PayloadSent[1] # HAL_OK

\* C15: every byte address a mem-write programs or stores to lies in the region
\* of its target address (flash or the SRAM window): no byte is written at an
\* address the address validator classifies as invalid.
C15_WriteStaysInRegion ==
    \A i \in Positions("program") \cup Positions("store") :
        /\ uint8_ValidateAddress(log[i].x) = VALID_ADDRESS
        /\ InFlashRegion(log[i].x) <=> InFlashRegion(lAddress)

\* C16: a packet whose length byte is 0..3 (fewer than five bytes in total) is
\* answered with the NACK only, whatever its contents: no ACK is sent and no
\* command is executed.
C16_ShortPacketNacked ==
    (Handled /\ packet[1] <= 3) =>
        /\ pc = "NackSent"
        /\ log = <<voidSendNACK>>
        /\ Wire = <<BL_NACK>>

\* positions of the thread of control at the entry of a handler
HandlerEntries == { HandlerOf(op) : op \in 81..92 }

\* C17: for every length byte L in 4..255 the handler takes the host CRC from the
\* last four bytes of the packet (offsets L-3 .. L, little-endian) and verifies
\* it against the checksum of exactly the bytes at offsets 0 .. L-4, also for
\* L = 255 where the total length is 256.
C17_CrcOverLastFourBytes ==
    [][ (pc \in HandlerEntries /\ packet[1] >= 4) =>
            LET L   == packet[1]
                acc == CrcLoop(crcDR, packet, L - 3)
            IN  /\ crcDR' = acc
                /\ crcOk' = (acc = Word32(packet[L - 2], packet[L - 1],
                                          packet[L], packet[L + 1])) ]_vars

\* C18: CRC verification is independent across packets: when a handler starts
\* its verification the CRC data register holds its reset value, so a packet is
\* accepted exactly when its CRC field is the checksum, computed from the reset
\* value, of the bytes it covers, whatever packets were handled before.
C18_VerifyFromReset ==
    /\ pc \in HandlerEntries => crcDR = CrcResetValue
    /\ (Handled /\ packet[1] >= 4 /\ packet[1] <= 254) =>
          crcOk = (CrcLoop(CrcResetValue, packet, packet[1] - 3) = HostCRCField)

\* a mem-write packet that carries exactly the data bytes its payload-length
\* byte announces, all of them stored inside the SRAM window
RamWritePacket ==
    /\ Opcode = BL_MEM_WRITE
    /\ CmdLen >= 5
    /\ Len(packet) = packet[7] + 11
    /\ CmdLen = Len(packet)
    /\ PacketAddress >= SRAM1_BASE
    /\ PacketAddress + packet[7] <= SRAM1_BASE + SRAM_SIZE

\* C19: a mem-write of the bytes b[0..n-1] to a RAM address a with a + n inside
\* the RAM window and a passing CRC stores b[i] at a + i for every i < n and
\* changes no other memory byte: every turn of the copy loop changes only the
\* byte at a + i, to b[i], and when the loop ends memory holds b at a .. a+n-1.
C19_RamRoundTrip ==
    [][ (pc = "MW_Store" /\ RamWritePacket) =>
          /\ lAddress = PacketAddress /\ lLength = packet[7]
          /\ pc' = "MW_Store" =>
                /\ lIter < lLength
                /\ Len(log') = Len(log) + 1
                /\ log'[Len(log')] = EvStore(lAddress + lIter, packet[8 + lIter])
                /\ \A c \in RamCells :
                     mem'[c] = IF c = lAddress + lIter THEN packet[8 + lIter] ELSE mem[c]
          /\ pc' # "MW_Store" =>
                /\ pc' = "MW_Status"
                /\ lIter = lLength
                /\ mem' = mem /\ log' = log
                /\ Len(Events("store")) = lLength
                /\ \A i \in 0..(lLength - 1) :
                     lAddress + i \in RamCells => mem[lAddress + i] = packet[8 + i] ]_vars

\* two bytes written to the first two RAM cells and found there afterwards
C19_Witness ==
    /\ WriteHandled
    /\ RamWritePacket
    /\ PacketAddress = SRAM1_BASE
    /\ packet[7] = 2
    /\ mem[SRAM1_BASE] = packet[8]
    /\ mem[SRAM1_BASE + 1] = packet[9]
    /\ packet[8] # packet[9]
    /\ Len(Events("store")) = 2

\* the go-to-address handler has finished with a packet whose CRC passed
GoToHandled == Handled /\ Opcode = BL_GO_TO_ADDR /\ crcOk

OperationPositions ==
    Positions("unlock") \cup Positions("erase") \cup Positions("program")
        \cup Positions("store") \cup Positions("lock")

---------------------------------------------------------------------------
(* Termination.  The bootloader has one thread of control and every call to *)
(* a peripheral driver returns, so a handler that can take a step takes it: *)
(* weak fairness of the steps of the handlers and of the return to the      *)
(* dispatcher.  The arrival of a packet is up to the host and is not        *)
(* required to happen.                                                      *)

HandlerStep ==
    \/ Return
    \/ BL_voidHandleGetVERCmd
    \/ BL_voidHandleGetHelpCmd
    \/ BL_voidHandleGetCIDcmd
    \/ BL_voidHandleGetRDPStatusCmd
    \/ BL_voidHandleGoToAddressCmd
    \/ BL_voidHandleFlashEraseCmd
    \/ FE_Unlock
    \/ FE_Erase
    \/ FE_Lock
    \/ FE_Status
    \/ BL_voidHandleMemWriteCmd
    \/ MW_Unlock
    \/ MW_Program
    \/ MW_Lock
    \/ MW_Store
    \/ MW_Status
    \/ BL_voidHandleEnRWProtectCmd
    \/ BL_voidHandleMemReadCmd
    \/ BL_voidHandleReadSectorStatusCmd
    \/ BL_voidHandleOTPReadCmd
    \/ BL_voidHandleDisWRProtectCmd

SpecLive == Init /\ [][Next]_vars /\ WF_vars(HandlerStep)

\* C22: every call of a handler, on any packet, terminates after its response
\* has been sent, and the dispatcher waits for the next packet again; the only
\* call that does not return is go-to-address with a valid address, which ends
\* in the transfer of control.
C22_HandlerTerminates ==
    /\ (pc \in HandlerEntries) ~> (pc \in {"AwaitingPacket", "Jumped"})
    /\ [][ pc' = "Jumped" =>
             (pc = "GoToAddress" /\ lValid' = VALID_ADDRESS) ]_vars
    /\ [][ (pc' = "AwaitingPacket" /\ pc # "AwaitingPacket") =>
             (pc \in {"ResponseSent", "NackSent"} /\ Len(Events("tx")) >= 1) ]_vars

\* a mem-write whose payload-length byte is 5 has been through its five turns
\* of the copy loop and has answered
C22_Witness ==
    /\ pc = "ResponseSent"
    /\ Opcode = BL_MEM_WRITE
    /\ lLength = 5
    /\ lIter = 5
    /\ Len(Events("store")) = 5

---------------------------------------------------------------------------

Occurrences(seq, b) == Cardinality({ i \in 1..Len(seq) : seq[i] = b })

C25_EraseStatusVerbatim ==
    /\ Len(Events("erase")) <= 1
    /\ (Handled /\ Opcode = BL_FLASH_ERASE /\ crcOk) =>
          /\ pc = "ResponseSent"
          /\ PayloadSent = IF Len(Events("erase")) = 1
                           THEN << Events("erase")[1].r >>
                           ELSE << HAL_ERROR >>
          /\ Len(Events("erase")) = 0 <=> ~EraseRequest(SectorNumber, SectorCount).valid

\* an erase of sector 5 the flash driver failed: one operation, HAL_ERROR sent
C25_Witness ==
    /\ EraseHandled
    /\ SectorNumber = 5
    /\ Len(Events("erase")) = 1
    /\ Events("erase")[1].r = HAL_ERROR
    /\ PayloadSent = <<HAL_ERROR>>

\* the log without the transmissions
Operations == SelectSeq(log, LAMBDA e : e.op # "tx")

\* the target address of the packet lies in [FLASH_BASE, FLASH_END]
TargetInFlash == PacketAddress >= FLASH_BASE /\ PacketAddress <= FLASH_END

\* C26: the memory-write executor routes by region.  For a target address in
\* [FLASH_BASE, FLASH_END]: exactly one unlock, then byte-program operations at
\* target + i for i = 0, 1, ... in increasing order with the value buffer[i],
\* then exactly one lock, and no direct store.  For a target address in RAM:
\* direct stores only, and no unlock, program or lock.
C26_RouteByRegion ==
    (WriteHandled /\ lValid = VALID_ADDRESS) =>
        LET n   == packet[7]
            ops == Operations
        IN  IF TargetInFlash
            THEN /\ Len(ops) = n + 2
                 /\ ops[1] = EvUnlock
                 /\ ops[n + 2] = EvLock
                 /\ \A i \in 0..(n - 1) :
                       /\ ops[i + 2].op = "program"
                       /\ ops[i + 2].x = PacketAddress + i
                       /\ 8 + i \in DOMAIN packet => ops[i + 2].y = packet[8 + i]
            ELSE /\ Len(ops) = n
                 /\ \A i \in 0..(n - 1) :
                       /\ ops[i + 1].op = "store"
                       /\ ops[i + 1].x = PacketAddress + i
                       /\ 8 + i \in DOMAIN packet => ops[i + 1].y = packet[8 + i]

\* two bytes programmed at the start of flash, both successfully
C26_Witness ==
    /\ WriteHandled
    /\ PacketAddress = FLASH_BASE
    /\ packet[7] = 2
    /\ Len(packet) = 13
    /\ Len(Events("program")) = 2
    /\ Events("program")[1].r = HAL_OK
    /\ Events("program")[2].r = HAL_OK

\* C27: a mem-write to a valid RAM address that copied all of its bytes reports
\* the success status, the value a flash mem-write reports when every
\* byte-program operation succeeded (HAL_OK).
C27_RamWriteReportsSuccess ==
    /\ (WriteHandled /\ lValid = VALID_ADDRESS /\ TargetInFlash /\ packet[7] >= 1
          /\ \A i \in Positions("program") : log[i].r = HAL_OK) =>
          PayloadSent = <<HAL_OK>>
    /\ (WriteHandled /\ lValid = VALID_ADDRESS /\ RamWritePacket /\ packet[7] >= 1
          /\ Len(Events("store")) = packet[7]) =>
          PayloadSent = <<HAL_OK>>

\* C28: a mem-write whose payload-length byte (offset 6) exceeds the number of
\* data bytes the packet carries between offset 7 and the CRC field is rejected
\* with an error status and writes nothing: neither the CRC bytes nor bytes
\* behind the packet are programmed or stored.
C28_OverlongWriteRejected ==
    (crcOk /\ Opcode = BL_MEM_WRITE /\ CmdLen >= 5 /\ CmdLen = Len(packet)
       /\ packet[7] > CmdLen - 11) =>
        /\ Positions("program") \cup Positions("store") = {}
        /\ pc = "ResponseSent" => (Len(PayloadSent) = 1 /\ PayloadSent[1] # HAL_OK)

\* C30: a mem-write of length 0 to a valid flash address issues no byte-program
\* operation, only the unlock and the lock, and reports the success status, the
\* value reported when every byte of a non-empty flash write was programmed
\* (HAL_OK).
C30_EmptyFlashWriteSucceeds ==
    (WriteHandled /\ lValid = VALID_ADDRESS /\ TargetInFlash /\ packet[7] = 0) =>
        /\ Operations = <<EvUnlock, EvLock>>
        /\ PayloadSent = <<HAL_OK>>

\* opcodes of the commands whose handlers execute nothing
UnimplementedOpcodes ==
    { BL_EN_RW_PROTECT, BL_MEM_READ, BL_READ_SECTOR_STATUS, BL_OTP_READ,
      BL_DIS_WR_PROTECT }

Appended == { i \in 1..Len(log') : i > Len(log) }

\* C31: an erase or byte-program operation is issued only while the flash
\* controller is unlocked by the handler being executed; HAL_FLASH_Unlock is
\* never called while the controller is unlocked and HAL_FLASH_Lock never while
\* it is locked: unlock and lock strictly alternate, starting with unlock,
\* across any sequence of packets.
C31_UnlockLockAlternate ==
    /\ []( /\ Len(Events("unlock")) - Len(Events("lock")) \in {0, 1}
           /\ flashLocked <=> Len(Events("unlock")) = Len(Events("lock"))
           /\ \A i \in Positions("erase") \cup Positions("program") :
                 \E u \in Positions("unlock") :
                    /\ u < i
                    /\ \A l \in Positions("lock") : i < l )
    /\ [][ /\ \A i \in Appended :
                /\ log'[i].op \in {"erase", "program"} =>
                      ~flashLocked /\ ~flashLocked'
                /\ log'[i].op = "unlock" => flashLocked /\ ~flashLocked'
                /\ log'[i].op = "lock" => ~flashLocked /\ flashLocked'
           /\ flashLocked' # flashLocked =>
                /\ Len(log') = Len(log) + 1
                /\ log'[Len(log')].op \in {"unlock", "lock"} ]_vars

\* one byte programmed into flash between the unlock and the lock
C31_Witness ==
    /\ WriteHandled
    /\ TargetInFlash
    /\ Operations = << EvUnlock, Operations[2], EvLock >>
    /\ Operations[2].op = "program"
    /\ flashLocked

=============================================================================
